---- MODULE Spec2Model ----
(***************************************************************************)
(* Model of rss_CrimeShield.py: the ingestion / identity / merge /         *)
(* persistence pipeline of the desktop RSS monitor.                        *)
(*                                                                         *)
(* A DataFrame is a sequence of rows; a row is a record of the columns the *)
(* pipeline reads (article_id, title, published_time_utc, url,             *)
(* fetched_at_utc).  The remaining text columns (author, description,      *)
(* image_url, source_name, source_feed_url) are carried exactly like title *)
(* and are not represented.  A missing value (None / NaN) is the string    *)
(* NaN; every column value is a string.                                    *)
(***************************************************************************)
EXTENDS Integers, Sequences, FiniteSets, TLC

VARIABLES
    feeds,          \* self.feeds: the configured feed URLs
    csv,            \* the file CSV_OUT: [st: "missing"|"corrupt"|"ok", rows]
    current_df,     \* self.current_df
    db,             \* the relation rss_article: set of stored rows
    status,         \* self.status_var: the set of text segments it shows
    seconds_left,   \* self.seconds_left
    last_update,    \* self.last_update (0 = None)
    now,            \* wall clock, one unit per poll cycle
    uuid_ctr,       \* number of uuid4() values drawn so far
    cycles,         \* poll cycles run in this behaviour
    restarts,       \* process restarts in this behaviour
    faults,         \* failures injected in this behaviour
    last,           \* record of what the latest poll cycle did
    px, py,         \* inputs of the pure-function checks
    pres,           \* results of the pure-function checks
    pc,             \* where poll_once stands: "idle" when it is not running
    active,         \* activations of poll_once that have not returned
    caller,         \* the callback that called the running poll_once
    stalled,        \* feedparser.parse is waiting for a source
    clicks,         \* "Refresh now" clicks waiting in the event queue
    pending,        \* after(POLL_SECONDS * 1000, poll_once) timers armed
    tick_armed,     \* whether after(1000, tick_countdown) is armed
    feeds_list,     \* self.feeds_list: the URLs the listbox shows
    feeds_json,     \* the file FEEDS_JSON: [st: "missing"|"bad"|"ok", data]
    feed_msg        \* the dialog the latest feed handler showed

vars == <<feeds, csv, current_df, db, status, seconds_left, last_update, now,
          uuid_ctr, cycles, restarts, faults, last, px, py, pres,
          pc, active, caller, stalled, clicks, pending, tick_armed,
          feeds_list, feeds_json, feed_msg>>

feedVars == <<feeds_list, feeds_json, feed_msg>>

loopVars == <<pc, active, caller, stalled, clicks, pending, tick_armed>>

appVars == <<feeds, csv, current_df, db, status, seconds_left, last_update,
             now, uuid_ctr, cycles, restarts, faults, last>>

pureVars == <<px, py, pres>>

-----------------------------------------------------------------------------
(* Bounds of the model *)

MaxRows == 3        \* rows in the inputs of the pure-function checks
MaxEntries == 1     \* entries a feed document carries
MaxCsvRows == 2     \* rows of the snapshot file found at first start
MaxCycles == 2      \* poll cycles per behaviour
MaxRestarts == 1    \* process restarts per behaviour
MaxFaults == 1      \* failing steps (store, media directory, file write) per behaviour
MaxFeeds == 2       \* sources of the unit checks of fetch_all_feeds
MaxClicks == 2      \* "Refresh now" clicks waiting in the event queue
MaxJsonItems == 2   \* items of the JSON value found in FEEDS_JSON

-----------------------------------------------------------------------------
(* Config *)

POLL_SECONDS == 600

DEFAULT_FEEDS == <<"https://www.vrt.be/vrtnws/nl.rss.articles.xml">>

-----------------------------------------------------------------------------
(* Values *)

NaN == "NaN"            \* pandas missing value (None / NaN / NaT as text)
NaT == -1               \* pandas missing timestamp; real timestamps are >= 0

Row(id, title, pub, url, fet) ==
    [article_id |-> id, title |-> title, published_time_utc |-> pub,
     url |-> url, fetched_at_utc |-> fet]

\* Index range helper
Range(f) == {f[i] : i \in DOMAIN f}

Ids(df) == {df[i].article_id : i \in DOMAIN df}

SeqsUpTo(S, n) == UNION {[1..k -> S] : k \in 0..n}

NoResult == [op |-> "none", out |-> <<>>, out2 |-> <<>>, new_ids |-> {}]

\* df[mask]: the rows of df whose index is in mask, in order, from row i on
RECURSIVE Filter(_, _, _)
Filter(df, mask, i) ==
    IF i > Len(df) THEN <<>>
    ELSE (IF i \in mask THEN <<df[i]>> ELSE <<>>) \o Filter(df, mask, i + 1)

-----------------------------------------------------------------------------
(* Identity *)

\* uuid.uuid5(NAMESPACE_URL, url): a fixed injective function of the url
Uuid5(url) == "u5-" \o url

\* uuid.uuid4(): the n-th random identifier drawn by the process
Uuid4(n) == "u4-" \o ToString(n)

\* gen_article_id drawing a random identifier for every url
gen_article_id_random(url, n) ==
    Uuid4(n)

\* gen_article_id(url); n is the index of the next random identifier
gen_article_id(url, n) ==
    IF url = "" THEN Uuid4(n) ELSE Uuid5(url)

-----------------------------------------------------------------------------
(* Timestamps as text.  The texts the model uses, with the instant each    *)
(* denotes in milliseconds.                                                *)

TS1Z    == "2024-01-01T00:00:01Z"
TS2Z    == "2024-01-01T00:00:02Z"
TS1Iso  == "2024-01-01T00:00:01+00:00"
TS2Iso  == "2024-01-01T00:00:02+00:00"
TS1Frac == "2024-01-01T00:00:01.500000+00:00"
TSBad   == "not a date"

\* pd.to_datetime(text, errors="coerce", utc=True)
to_datetime(text) ==
    CASE text \in {TS1Z, TS1Iso} -> 1000
      [] text = TS1Frac          -> 1500
      [] text \in {TS2Z, TS2Iso} -> 2000
      [] OTHER                   -> NaT

\* Series.dt.strftime("%Y-%m-%dT%H:%M:%SZ"): whole seconds, NaT -> NaN
strftime(dt) ==
    CASE dt = NaT     -> NaN
      [] dt \div 1000 = 1 -> TS1Z
      [] dt \div 1000 = 2 -> TS2Z
      [] OTHER        -> NaN

-----------------------------------------------------------------------------
(* Normalizer / Deduplicator *)

fillna(v) == IF v = NaN THEN "" ELSE v

\* str.strip().eq("")
IsBlank(v) == v \in {"", " "}

\* rows among the first i whose id is backfilled with a random identifier
Uuid4Before(df, i) ==
    Cardinality({j \in 1..i : IsBlank(fillna(df[j].article_id))
                               /\ fillna(df[j].url) = ""})

Uuid4Used(df) == Uuid4Before(df, Len(df))

\* normalize_ids(df); n is the index of the next random identifier
normalize_ids(df, n) ==
    [i \in 1..Len(df) |->
        LET r == [c \in DOMAIN df[i] |-> fillna(df[i][c])]
        IN  IF IsBlank(r.article_id)
            THEN [r EXCEPT !.article_id =
                     gen_article_id(r.url, n + Uuid4Before(df, i) - 1)]
            ELSE r]

\* drop_duplicates(subset=["article_id"], keep="last")
drop_duplicates_last(df) ==
    LET lastOcc == {i \in 1..Len(df) :
                       \A j \in (i + 1)..Len(df) :
                          df[j].article_id # df[i].article_id}
    IN  Filter(df, lastOcc, 1)

\* duplicates are kept
drop_duplicates_off(df) == df

\* drop_duplicates(subset=["article_id"], keep="first")
drop_duplicates(df) ==
    LET first == {i \in 1..Len(df) :
                     \A j \in 1..(i - 1) : df[j].article_id # df[i].article_id}
    IN  Filter(df, first, 1)

\* ascending order: insert r behind every row whose key is not larger
RECURSIVE InsertAsc(_, _)
InsertAsc(sorted, r) ==
    IF sorted = <<>> THEN <<r>>
    ELSE IF to_datetime(Head(sorted).published_time_utc)
              <= to_datetime(r.published_time_utc)
         THEN <<Head(sorted)>> \o InsertAsc(Tail(sorted), r)
         ELSE <<r>> \o sorted

\* an unstable descending sort: r goes in front of the rows with an equal key
RECURSIVE InsertDescUnstable(_, _)
InsertDescUnstable(sorted, r) ==
    IF sorted = <<>> THEN <<r>>
    ELSE IF to_datetime(Head(sorted).published_time_utc)
              > to_datetime(r.published_time_utc)
         THEN <<Head(sorted)>> \o InsertDescUnstable(Tail(sorted), r)
         ELSE <<r>> \o sorted

\* insert r behind every row whose key is not smaller (NaT is smallest)
RECURSIVE InsertDesc(_, _)
InsertDesc(sorted, r) ==
    IF sorted = <<>> THEN <<r>>
    ELSE IF to_datetime(Head(sorted).published_time_utc)
              >= to_datetime(r.published_time_utc)
         THEN <<Head(sorted)>> \o InsertDesc(Tail(sorted), r)
         ELSE <<r>> \o sorted

RECURSIVE SortFrom(_, _, _)
SortFrom(df, i, acc) ==
    IF i > Len(df) THEN acc ELSE SortFrom(df, i + 1, InsertDesc(acc, df[i]))

\* sort_values("__sort_key", ascending=False, kind="stable"), NaT last
sort_values(df) == SortFrom(df, 1, <<>>)

\* df["published_time_utc"] = dt.dt.strftime(...)
reformat_published(df) ==
    [i \in 1..Len(df) |->
        [df[i] EXCEPT !.published_time_utc =
            strftime(to_datetime(df[i].published_time_utc))]]

\* dedupe_df(df); n is the index of the next random identifier
dedupe_df(df, n) ==
    normalize_ids(
        reformat_published(sort_values(drop_duplicates(normalize_ids(df, n)))),
        n + Uuid4Used(df))

-----------------------------------------------------------------------------
(* Merge Engine *)

\* merge_new without the mask: every fetched id counts as new
merge_new_no_mask(existing0, freshly0, n) ==
    LET freshly  == dedupe_df(freshly0, n)
        existing == dedupe_df(existing0, n + Uuid4Used(freshly0))
    IN  [total   |-> dedupe_df(existing \o freshly, n),
         new_ids |-> Ids(freshly)]

\* merge_new as an overwrite: the fetched rows go first and win the dedupe
merge_new_overwrite(existing0, freshly0, n) ==
    LET freshly  == dedupe_df(freshly0, n)
        existing == dedupe_df(existing0, n + Uuid4Used(freshly0))
    IN  [total   |-> dedupe_df(freshly \o existing, n),
         new_ids |-> Ids(freshly) \ Ids(existing)]

\* merge_new that returns the fetched rows alone as the combined collection
merge_new_fresh_only(existing0, freshly0, n) ==
    LET freshly  == dedupe_df(freshly0, n)
        existing == dedupe_df(existing0, n + Uuid4Used(freshly0))
    IN  [total   |-> freshly,
         new_ids |-> Ids(freshly) \ Ids(existing)]

\* merge_new(existing, freshly) -> [total, new_ids]
merge_new(existing0, freshly0, n) ==
    LET freshly  == dedupe_df(freshly0, n)
        existing == dedupe_df(existing0, n + Uuid4Used(freshly0))
    IN  IF existing = <<>>
        THEN [total |-> freshly, new_ids |-> Ids(freshly)]
        ELSE LET existing_ids == Ids(existing)
                 mask_new     == {i \in 1..Len(freshly) :
                                     freshly[i].article_id \notin existing_ids}
                 added        == Filter(freshly, mask_new, 1)
             IN  [total   |-> dedupe_df(existing \o added, n),
                  new_ids |-> Ids(added)]

-----------------------------------------------------------------------------
(* Feed Fetcher *)

\* datetime.now(timezone.utc).isoformat() at clock value t
FetchedAt(t) == "T" \o ToString(t)

\* s(x): None -> ""
s(x) == IF x = NaN THEN "" ELSE x

\* entries of the feed document without a link, among the first k
NoLinkBefore(entries, k) ==
    Cardinality({j \in 1..k : entries[j].link = NaN})

\* fetch_feed_rows(feed_url) for a document with the given entries,
\* fetched at clock value t; n is the index of the next random identifier
fetch_feed_rows(entries, t, n) ==
    LET rows == [k \in 1..Len(entries) |->
                    Row(gen_article_id(s(entries[k].link),
                                       n + NoLinkBefore(entries, k) - 1),
                        s(entries[k].title), s(entries[k].published),
                        s(entries[k].link), FetchedAt(t))]
    IN  dedupe_df(rows, n + NoLinkBefore(entries, Len(entries)))

\* random identifiers drawn while fetching the first k feeds
RECURSIVE Uuid4Fetched(_, _)
Uuid4Fetched(outs, k) ==
    IF k = 0 THEN 0
    ELSE Uuid4Fetched(outs, k - 1)
         + (IF outs[k].ok THEN NoLinkBefore(outs[k].entries, Len(outs[k].entries))
            ELSE 0)

\* the frames list of fetch_all_feeds, concatenated: a failing source
\* contributes nothing
RECURSIVE ConcatFrames(_, _, _, _)
ConcatFrames(outs, k, t, n) ==
    IF k > Len(outs) THEN <<>>
    ELSE (IF outs[k].ok
          THEN fetch_feed_rows(outs[k].entries, t, n + Uuid4Fetched(outs, k - 1))
          ELSE <<>>)
         \o ConcatFrames(outs, k + 1, t, n)

\* fetch_all_feeds without the per-source try/except: one failing source
\* loses the whole fetch
fetch_all_feeds_abort(outs, t, n) ==
    IF \E k \in 1..Len(outs) : ~outs[k].ok THEN <<>>
    ELSE dedupe_df(ConcatFrames(outs, 1, t, n), n + Uuid4Fetched(outs, Len(outs)))

\* fetch_all_feeds(feed_urls); outs[k] is what source k answers
fetch_all_feeds(outs, t, n) ==
    dedupe_df(ConcatFrames(outs, 1, t, n), n + Uuid4Fetched(outs, Len(outs)))

-----------------------------------------------------------------------------
(* Snapshot file *)

\* DataFrame.to_csv(index=False): the text of every cell
to_csv(df) == df

\* pd.read_csv(dtype=str): an empty cell reads as NaN
read_csv(rows) ==
    [i \in 1..Len(rows) |->
        [c \in DOMAIN rows[i] |-> IF rows[i][c] \in {"", NaN} THEN NaN ELSE rows[i][c]]]

NoFile  == [st |-> "missing", rows |-> <<>>]
BadFile == [st |-> "corrupt", rows |-> <<>>]

\* How a write of df to CSV_OUT can end: completely; not at all (the open
\* fails); with the file truncated and nothing flushed (unreadable); with
\* only the first k rows flushed.  Every outcome but the first raises.
WriteOutcomes(df) ==
    {[kind |-> "ok", k |-> 0], [kind |-> "open_failed", k |-> 0],
     [kind |-> "truncated", k |-> 0]}
    \cup {[kind |-> "partial", k |-> k] : k \in 1..(Len(df) - 1)}

\* the file after df.to_csv(CSV_OUT) ended with outcome w
write_file(file, df, w) ==
    CASE w.kind = "ok"          -> [st |-> "ok", rows |-> to_csv(df)]
      [] w.kind = "open_failed" -> file
      [] w.kind = "truncated"   -> BadFile
      [] OTHER                  -> [st |-> "ok", rows |-> SubSeq(to_csv(df), 1, w.k)]

\* load_existing without its try/except: an unreadable file or a failing
\* rewrite raises out of the loader
load_existing_unguarded(file, n, w) ==
    IF file.st = "ok"
    THEN LET df      == read_csv(file.rows)
             cleaned == dedupe_df(df, n)
         IN  IF Len(cleaned) # Len(df)
             THEN [df |-> cleaned, file |-> write_file(file, cleaned, w),
                   raised |-> w.kind # "ok"]
             ELSE [df |-> cleaned, file |-> file, raised |-> FALSE]
    ELSE [df |-> <<>>, file |-> file, raised |-> file.st = "corrupt"]

\* load_existing() -> [df, file, raised]; w is the outcome of the rewrite, if
\* any; raised: whether an exception leaves the loader
load_existing(file, n, w) ==
    IF file.st = "ok"
    THEN LET df      == read_csv(file.rows)
             cleaned == dedupe_df(df, n)
         IN  IF Len(cleaned) # Len(df)
             THEN IF w.kind = "ok"
                  THEN [df |-> cleaned, file |-> write_file(file, cleaned, w),
                        raised |-> FALSE]
                  ELSE [df |-> <<>>, file |-> write_file(file, cleaned, w),
                        raised |-> FALSE]
             ELSE [df |-> cleaned, file |-> file, raised |-> FALSE]
    ELSE [df |-> <<>>, file |-> file, raised |-> FALSE]

\* the snapshot is not written
save_csv_skipped(file, df, w) == file

\* save_csv(df)
save_csv(file, df, w) == write_file(file, dedupe_df(df, 0), w)

-----------------------------------------------------------------------------
(* Durable store *)

\* texts of the model that uuid.UUID() rejects
NonUuidTexts == {"", " ", NaN, "k1"}

\* safe_uuid(val); n is the index of the next random identifier
safe_uuid(val, n) == IF val \in NonUuidTexts THEN Uuid4(n) ELSE val

BadIdsBefore(df, i) ==
    Cardinality({j \in 1..i : df[j].article_id \in NonUuidTexts})

\* df_to_rows(df): the tuples handed to UPSERT_SQL
df_to_rows(df, t, n) ==
    [i \in 1..Len(df) |->
        [article_id     |-> safe_uuid(df[i].article_id, n + BadIdsBefore(df, i) - 1),
         title          |-> df[i].title,
         published_time |-> to_datetime(df[i].published_time_utc),
         url            |-> IF df[i].url = "" THEN NaN ELSE df[i].url,
         fetched_at_utc |-> IF df[i].fetched_at_utc = "" THEN FetchedAt(t)
                            ELSE df[i].fetched_at_utc]]

\* UPSERT_SQL: INSERT ... ON CONFLICT (article_id) DO UPDATE SET every column
UPSERT_SQL(table, rows) ==
    {r \in table : \A i \in 1..Len(rows) : rows[i].article_id # r.article_id}
    \cup Range(rows)

DbIds(table) == {r.article_id : r \in table}

\* upsert_articles(df) on the relation table, at clock value t; n is the
\* index of the next random identifier
upsert_articles(table, df, t, n) ==
    LET rows == df_to_rows(df, t, n)
    IN  IF rows = <<>> THEN table ELSE UPSERT_SQL(table, rows)

-----------------------------------------------------------------------------
(* The application *)

\* a status line that shows the countdown only
status_line_countdown_only(lu) ==
    [segs |-> {"next"}, n_new |-> 0, total |-> 0]

\* status_line(): the countdown, and the last update once there is one
status_line(lu) ==
    [segs |-> {"next"} \cup (IF lu # 0 THEN {"last_update"} ELSE {}),
     n_new |-> 0, total |-> 0]

NoCycle ==
    [ran |-> FALSE, existing_ids |-> {}, fresh_ids |-> {}, combined |-> <<>>,
     new_ids |-> {}, submitted |-> {}, db_before |-> {}, batch |-> <<>>,
     table_before |-> {}, db_raised |-> FALSE,
     img_raised |-> FALSE, save |-> "none", completed |-> FALSE, file_before |-> NoFile]

\* entries a feed document can carry: [link, title, published text of to_iso]
FeedEntries ==
    {[link |-> "A", title |-> "Old", published |-> TS1Iso],
     [link |-> "A", title |-> "New", published |-> TS2Iso],
     [link |-> "B", title |-> "Old", published |-> NaN]}

\* what one source answers: a failure, or a document
FeedOutcomes ==
    {[ok |-> FALSE, entries |-> <<>>]}
    \cup {[ok |-> TRUE, entries |-> e] : e \in SeqsUpTo(FeedEntries, MaxEntries)}

\* rows of the snapshot file found at first start
CsvRows ==
    {Row("u5-A", "Old", TS1Z, "A", "T0"),
     Row("u5-A", "New", TS2Z, "A", "T0"),
     Row("", "Old", TS1Frac, "B", "T0"),
     Row("k1", "Old", "", "", "T0")}

InitFiles ==
    {NoFile, BadFile}
    \cup {[st |-> "ok", rows |-> r] : r \in SeqsUpTo(CsvRows, MaxCsvRows)}

PureQuiet ==
    /\ px = <<>>
    /\ py = <<>>
    /\ pres = NoResult

\* json.dumps(feeds): the file holds the list of the URLs
json_dumps(fs) ==
    [st |-> "ok",
     data |-> [kind |-> "list",
               items |-> [i \in 1..Len(fs) |-> [t |-> "str", v |-> fs[i]]]]]

\* the feed list as load_feeds leaves it when FEEDS_JSON is missing
FeedsQuiet ==
    /\ feeds_list = DEFAULT_FEEDS
    /\ feeds_json = json_dumps(DEFAULT_FEEDS)
    /\ feed_msg = "none"

\* the event loop as __init__ leaves it: nothing running, both timers armed
LoopQuiet ==
    /\ pc = "idle"
    /\ active = 0
    /\ caller = "none"
    /\ stalled = FALSE
    /\ clicks = 0
    /\ pending = 1
    /\ tick_armed = TRUE

\* VrtDesktopApp.__init__
Init ==
    /\ feeds = DEFAULT_FEEDS
    /\ \E f \in InitFiles :
         \E ld \in {load_existing(f, 0, [kind |-> "ok", k |-> 0])} :
            /\ csv = ld.file
            /\ current_df = ld.df
            /\ uuid_ctr = Uuid4Used(read_csv(f.rows))
    /\ db = {}
    /\ seconds_left = POLL_SECONDS
    /\ last_update = 0
    /\ status = status_line(0)
    /\ now = 0
    /\ cycles = 0
    /\ restarts = 0
    /\ faults = 0
    /\ last = NoCycle
    /\ PureQuiet
    /\ LoopQuiet
    /\ FeedsQuiet

\* populate_table(df): the collection the table shows
populate_table(df) == dedupe_df(df, 0)

\* StringVar.set(text): the new text replaces the old one
status_var_set(old, new) == new

DbErrorStatus == [segs |-> {"db_error"}, n_new |-> 0, total |-> 0]

PollingErrorStatus == [segs |-> {"polling_error"}, n_new |-> 0, total |-> 0]

\* a durable-store failure made fatal to the cycle
escapes_db_fatal(db_raised, img_raised, save_raised) ==
    db_raised \/ img_raised \/ save_raised

\* whether an exception of the cycle reaches the outer handler of poll_once:
\* the durable-store step has its own handler, the media and snapshot steps
\* have none
escapes(db_raised, img_raised, save_raised) ==
    img_raised \/ save_raised

\* the whole combined collection handed to the durable store
select_new_all(combined, new_ids) ==
    combined

\* to_write of poll_once: the rows of combined whose id is in new_ids, an
\* empty frame when new_ids is empty
select_new(combined, new_ids) ==
    IF new_ids # {}
    THEN Filter(combined,
                {i \in 1..Len(combined) : combined[i].article_id \in new_ids}, 1)
    ELSE <<>>

\* the collection is replaced whether or not the cycle reached populate_table
set_current_df_early(completed, shown, old) ==
    shown

\* self.current_df after the cycle: populate_table assigns it, and
\* populate_table is reached only by a cycle no step of which raised out
set_current_df(completed, shown, old) ==
    IF completed THEN shown ELSE old

\* poll_once(): one poll cycle.  outs: what the sources answer.  The steps
\* that can fail draw their outcome when the cycle reaches them: dbOut,
\* whether the durable store takes the batch; imgOut, whether the media
\* directory can be made; w, how the snapshot write ends.
poll_once(outs) ==
    \E fresh \in {fetch_all_feeds(outs, now + 1, uuid_ctr)} :
    \E m \in {merge_new(current_df, fresh, 0)} :
    \E to_write \in {select_new(m.total, m.new_ids)} :
    \E rows \in {df_to_rows(to_write, now + 1, 0)} :
    \E shown \in {populate_table(m.total)} :
    \E dbOut \in (IF rows # <<>> THEN {"ok", "raise"} ELSE {"ok"}) :
    \E imgOut \in (IF m.new_ids # {} THEN {"ok", "raise"} ELSE {"ok"}) :
    \E w \in (IF m.new_ids # {} /\ ~escapes(dbOut = "raise", imgOut = "raise", FALSE)
              THEN WriteOutcomes(m.total) ELSE {[kind |-> "ok", k |-> 0]}) :
    LET t           == now + 1
        combined    == m.total
        new_ids     == m.new_ids
        db_raised   == dbOut = "raise"
        img_raised  == imgOut = "raise"
        save_tried  == new_ids # {} /\ ~escapes(db_raised, img_raised, FALSE)
        save_raised == w.kind # "ok"
        completed   == ~escapes(db_raised, img_raised, save_raised)
        status1     == IF db_raised THEN status_var_set(status, DbErrorStatus)
                       ELSE status
        nfaults     == faults + (IF db_raised THEN 1 ELSE 0)
                              + (IF img_raised \/ save_raised THEN 1 ELSE 0)
    IN  /\ nfaults <= MaxFaults
        /\ faults' = nfaults
        /\ db' = IF rows # <<>> /\ ~db_raised THEN UPSERT_SQL(db, rows) ELSE db
        /\ csv' = IF save_tried THEN save_csv(csv, combined, w) ELSE csv
        /\ current_df' = set_current_df(completed, shown, current_df)
        /\ last_update' = IF completed THEN t ELSE last_update
        /\ seconds_left' = IF completed THEN POLL_SECONDS ELSE seconds_left
        /\ status' =
             IF completed
             THEN status_var_set(status1,
                    [segs  |-> status_line(t).segs
                               \cup (IF new_ids # {} THEN {"added"} ELSE {"no_new"}),
                     n_new |-> Cardinality(new_ids),
                     total |-> Len(shown)])
             ELSE status_var_set(status1, PollingErrorStatus)
        /\ now' = t
        /\ uuid_ctr' = uuid_ctr + Uuid4Fetched(outs, Len(outs))
        /\ last' = [ran |-> TRUE, existing_ids |-> Ids(current_df),
                    fresh_ids |-> Ids(fresh),
                    combined |-> combined, new_ids |-> new_ids,
                    submitted |-> DbIds(Range(rows)), db_before |-> DbIds(db),
                    batch |-> rows, table_before |-> db,
                    db_raised |-> db_raised, img_raised |-> img_raised,
                    save |-> IF save_tried THEN w.kind ELSE "none",
                    completed |-> completed, file_before |-> csv]

\* "Refresh now": poll_now()
PollNow ==
    /\ cycles < MaxCycles
    /\ \E outs \in [1..Len(feeds) -> FeedOutcomes] : poll_once(outs)
    /\ cycles' = cycles + 1
    /\ UNCHANGED <<feeds, restarts>>
    /\ UNCHANGED pureVars
    /\ UNCHANGED loopVars
    /\ UNCHANGED feedVars

\* the process ends and is started again: __init__ runs on what is on disk
Restart ==
    /\ restarts < MaxRestarts
    /\ \E ld \in {load_existing(csv, uuid_ctr, [kind |-> "ok", k |-> 0])} :
          /\ csv' = ld.file
          /\ current_df' = ld.df
          /\ uuid_ctr' = uuid_ctr + Uuid4Used(read_csv(csv.rows))
    /\ seconds_left' = POLL_SECONDS
    /\ last_update' = 0
    /\ status' = status_line(0)
    /\ last' = NoCycle
    /\ restarts' = restarts + 1
    /\ UNCHANGED <<feeds, db, now, cycles, faults>>
    /\ UNCHANGED pureVars
    /\ UNCHANGED loopVars
    /\ UNCHANGED feedVars

Next == PollNow \/ Restart

Spec == Init /\ [][Next]_vars

-----------------------------------------------------------------------------
(* Pure-function checks: dedupe_df and merge_new applied to arbitrary raw  *)
(* collections (blank ids, duplicate ids, unparseable and non-canonical    *)
(* timestamps).                                                            *)

PureIdUrl == {<<"", "">>, <<" ", "A">>, <<"u5-A", "A">>, <<"u5-B", "B">>}

PureTitlePub == {<<"Old", TS1Z>>, <<"New", TS2Iso>>, <<"New", TS1Frac>>,
                 <<"Old", TSBad>>}

PureRows ==
    {Row(iu[1], tp[1], tp[2], iu[2], "T0") : iu \in PureIdUrl, tp \in PureTitlePub}

\* the application is not running during the pure-function checks
AppQuiet ==
    /\ feeds = DEFAULT_FEEDS
    /\ csv = [st |-> "missing", rows |-> <<>>]
    /\ current_df = <<>>
    /\ db = {}
    /\ status = {}
    /\ seconds_left = POLL_SECONDS
    /\ last_update = 0
    /\ now = 0
    /\ uuid_ctr = 0
    /\ cycles = 0
    /\ restarts = 0
    /\ faults = 0
    /\ last = NoCycle
    /\ LoopQuiet
    /\ FeedsQuiet

PureInit ==
    /\ px \in SeqsUpTo(PureRows, MaxRows)
    /\ py \in SeqsUpTo(PureRows, MaxRows - Len(px))
    /\ pres = NoResult
    /\ AppQuiet

\* X -> dedupe_df(X) -> dedupe_df(dedupe_df(X))
ApplyDedupe ==
    /\ pres.op = "none"
    /\ LET once == dedupe_df(px, 0)
       IN  pres' = [op |-> "dedupe", out |-> once,
                    out2 |-> dedupe_df(once, Uuid4Used(px)), new_ids |-> {}]
    /\ UNCHANGED <<px, py>>
    /\ UNCHANGED appVars
    /\ UNCHANGED loopVars
    /\ UNCHANGED feedVars

\* (existing, fresh) -> merge_new(existing, fresh)
ApplyMerge ==
    /\ pres.op = "none"
    /\ LET m == merge_new(px, py, 0)
       IN  pres' = [op |-> "merge", out |-> m.total, out2 |-> <<>>,
                    new_ids |-> m.new_ids]
    /\ UNCHANGED <<px, py>>
    /\ UNCHANGED appVars
    /\ UNCHANGED loopVars
    /\ UNCHANGED feedVars

PureNext == ApplyDedupe \/ ApplyMerge

SpecPure == PureInit /\ [][PureNext]_vars

-----------------------------------------------------------------------------
(* Unit checks: fetch_all_feeds over several sources, gen_article_id called *)
(* twice, load_existing on any snapshot file, upsert_articles called twice *)
(* with one batch, dedupe_df on raw rows.  px is the input: a record       *)
(* [kind, a, b].                                                           *)

\* entries of the unit checks: those of FeedEntries and one without a link
UnitEntries ==
    FeedEntries \cup {[link |-> NaN, title |-> "New", published |-> NaN]}

\* what a source answers: ok, the document parsed; not ok, fetch_feed_rows
\* raised on a document holding these entries
UnitOutcomes ==
    {[ok |-> o, entries |-> e] :
        o \in BOOLEAN, e \in SeqsUpTo(UnitEntries, MaxEntries)}

UnitUrls == {"", "A", "B"}

\* records handed to upsert_articles: ids that are UUIDs and one that is
\* not, with and without a fetch time
UpsertRows ==
    {Row(id, "Old", TS1Z, "A", fet) : id \in {"u5-A", "u5-B", "k1"},
                                      fet \in {"T0", ""}}

\* batches as upsert_dataframe and poll_once build them: one row per id
UpsertBatches ==
    {b \in SeqsUpTo(UpsertRows, MaxFeeds) :
        \A i, j \in 1..Len(b) : b[i].article_id = b[j].article_id => i = j}

\* relations the batch meets: empty, or holding an older row of one id
UpsertTables ==
    {{}, {[article_id |-> "u5-A", title |-> "New", published_time |-> NaT,
           url |-> "A", fetched_at_utc |-> "T0"]}}

UnitInit ==
    /\ \/ \E outs \in SeqsUpTo(UnitOutcomes, MaxFeeds) :
             px = [kind |-> "fetch", a |-> outs, b |-> 0]
       \/ \E url \in UnitUrls : \E n1 \in 0..1 : \E gap \in 0..1 :
             px = [kind |-> "genid", a |-> url, b |-> <<n1, gap>>]
       \/ \E f \in InitFiles :
             \E w \in WriteOutcomes(dedupe_df(read_csv(f.rows), 0)) :
                px = [kind |-> "load", a |-> f, b |-> w]
       \/ \E b \in UpsertBatches : \E tb \in UpsertTables :
             px = [kind |-> "upsert", a |-> b, b |-> tb]
       \/ \E df \in SeqsUpTo(PureRows, MaxRows) :
             px = [kind |-> "dedupe", a |-> df, b |-> 0]
    /\ py = <<>>
    /\ pres = NoResult
    /\ AppQuiet

\* feed_urls -> fetch_all_feeds(feed_urls)
ApplyFetch ==
    /\ pres.op = "none"
    /\ px.kind = "fetch"
    /\ pres' = [op |-> "fetch", out |-> fetch_all_feeds(px.a, 1, 0),
                out2 |-> <<>>, new_ids |-> {}]
    /\ UNCHANGED <<px, py>>
    /\ UNCHANGED appVars
    /\ UNCHANGED loopVars
    /\ UNCHANGED feedVars

\* url -> gen_article_id(url), gen_article_id(url): the second call is made
\* after gap more random identifiers were drawn
ApplyGenId ==
    /\ pres.op = "none"
    /\ px.kind = "genid"
    /\ LET n1 == px.b[1]
           n2 == n1 + (IF px.a = "" THEN 1 ELSE 0) + px.b[2]
       IN  pres' = [op |-> "genid", out |-> <<gen_article_id(px.a, n1)>>,
                    out2 |-> <<gen_article_id(px.a, n2)>>, new_ids |-> {}]
    /\ UNCHANGED <<px, py>>
    /\ UNCHANGED appVars
    /\ UNCHANGED loopVars
    /\ UNCHANGED feedVars

\* CSV_OUT -> load_existing()
ApplyLoad ==
    /\ pres.op = "none"
    /\ px.kind = "load"
    /\ LET ld == load_existing(px.a, 0, px.b)
       IN  pres' = [op |-> "load", out |-> ld.df, out2 |-> <<ld.file>>,
                    new_ids |-> {}, raised |-> ld.raised]
    /\ UNCHANGED <<px, py>>
    /\ UNCHANGED appVars
    /\ UNCHANGED loopVars
    /\ UNCHANGED feedVars

\* batch -> upsert_articles(batch); upsert_articles(batch): the second call
\* is made one clock unit later
ApplyUpsert ==
    /\ pres.op = "none"
    /\ px.kind = "upsert"
    /\ LET once == upsert_articles(px.b, px.a, 1, 0)
       IN  pres' = [op |-> "upsert", out |-> once,
                    out2 |-> upsert_articles(once, px.a, 2,
                                             BadIdsBefore(px.a, Len(px.a))),
                    new_ids |-> {}]
    /\ UNCHANGED <<px, py>>
    /\ UNCHANGED appVars
    /\ UNCHANGED loopVars
    /\ UNCHANGED feedVars

\* df -> dedupe_df(df)
ApplyDedupeRows ==
    /\ pres.op = "none"
    /\ px.kind = "dedupe"
    /\ pres' = [op |-> "dedupe", out |-> dedupe_df(px.a, 0), out2 |-> <<>>,
                new_ids |-> {}]
    /\ UNCHANGED <<px, py>>
    /\ UNCHANGED appVars
    /\ UNCHANGED loopVars
    /\ UNCHANGED feedVars

UnitNext ==
    ApplyFetch \/ ApplyGenId \/ ApplyLoad \/ ApplyUpsert \/ ApplyDedupeRows

SpecUnits == UnitInit /\ [][UnitNext]_vars

-----------------------------------------------------------------------------
(* The event loop: the callbacks of the Tk main loop (tick_countdown, the  *)
(* scheduled poll_once, the "Refresh now" button) and the positions of     *)
(* poll_once between them.  This specification follows control only: what *)
(* a cycle does to the collection, the snapshot and the durable store is   *)
(* poll_once of Spec, and those variables stay as they are here.           *)

loopData == <<feeds, csv, current_df, db, uuid_ctr, restarts, faults, last>>

LoopInit ==
    /\ feeds = DEFAULT_FEEDS
    /\ csv = NoFile
    /\ current_df = <<>>
    /\ db = {}
    /\ status = status_line(0)
    /\ seconds_left = POLL_SECONDS
    /\ last_update = 0
    /\ now = 0
    /\ uuid_ctr = 0
    /\ cycles = 0
    /\ restarts = 0
    /\ faults = 0
    /\ last = NoCycle
    /\ PureQuiet
    /\ LoopQuiet
    /\ FeedsQuiet

\* a main loop that dispatches callbacks while one is running
mainloop_reentrant(n) ==
    TRUE

\* app.mainloop() takes the next callback when none is running: poll_once
\* and what it calls never enter the event loop (no update(), no dialog)
mainloop_ready(n) ==
    n = 0

\* the reschedule argument of poll_once as caller c passes it
reschedule(c) == TRUE

\* an exception of a step ends the process
after_exception_crash(position) ==
    "crashed"

\* except Exception of poll_once: where the poller stands after a step at
\* the given position raised
after_exception(position) ==
    "idle"

\* poll_once is called by callback c
Begin(c) ==
    /\ cycles < MaxCycles
    /\ cycles' = cycles + 1
    /\ pc' = "fetching"
    /\ active' = active + 1
    /\ caller' = c
    /\ stalled' = FALSE

\* the tail of poll_once and the return to the main loop; tick_countdown,
\* when it was the caller, arms its timer again
Return(position) ==
    /\ pc' = position
    /\ active' = active - 1
    /\ pending' = pending + (IF reschedule(caller) THEN 1 ELSE 0)
    /\ tick_armed' = (tick_armed \/ caller = "tick")
    /\ caller' = "none"
    /\ UNCHANGED <<stalled, clicks, cycles>>

\* the failure edge of poll_once
Fail ==
    /\ status' = status_var_set(status, PollingErrorStatus)
    /\ Return(after_exception(pc))
    /\ UNCHANGED <<seconds_left, last_update, now>>

\* the user clicks "Refresh now": the click waits in the event queue
ClickRefresh ==
    /\ clicks < MaxClicks
    /\ clicks' = clicks + 1
    /\ UNCHANGED <<pc, active, caller, stalled, pending, tick_armed, cycles>>
    /\ UNCHANGED <<status, seconds_left, last_update, now>>
    /\ UNCHANGED loopData
    /\ UNCHANGED feedVars
    /\ UNCHANGED pureVars

\* the main loop runs poll_now for a waiting click
DispatchClick ==
    /\ mainloop_ready(active)
    /\ clicks > 0
    /\ clicks' = clicks - 1
    /\ Begin("button")
    /\ UNCHANGED <<pending, tick_armed>>
    /\ UNCHANGED <<status, seconds_left, last_update, now>>
    /\ UNCHANGED loopData
    /\ UNCHANGED feedVars
    /\ UNCHANGED pureVars

\* a scheduled poll_once timer expires and the main loop runs it
DispatchPollTimer ==
    /\ mainloop_ready(active)
    /\ pending > 0
    /\ pending' = pending - 1
    /\ Begin("timer")
    /\ UNCHANGED <<clicks, tick_armed>>
    /\ UNCHANGED <<status, seconds_left, last_update, now>>
    /\ UNCHANGED loopData
    /\ UNCHANGED feedVars
    /\ UNCHANGED pureVars

\* the countdown timer expires and the main loop runs tick_countdown
DispatchTick ==
    /\ mainloop_ready(active)
    /\ tick_armed
    /\ LET sl == IF seconds_left - 1 < 0 THEN 0 ELSE seconds_left - 1
       IN  /\ seconds_left' = sl
           /\ status' = status_var_set(status, status_line(last_update))
           /\ IF sl = 0
              THEN /\ Begin("tick")
                   /\ tick_armed' = FALSE
              ELSE UNCHANGED <<pc, active, caller, stalled, cycles, tick_armed>>
    /\ UNCHANGED <<clicks, pending>>
    /\ UNCHANGED <<last_update, now>>
    /\ UNCHANGED loopData
    /\ UNCHANGED feedVars
    /\ UNCHANGED pureVars

\* fetch_all_feeds(self.feeds): it returns, it raises, or feedparser.parse
\* waits for a source that never answers (the call has no timeout)
StepFetch ==
    /\ pc = "fetching"
    /\ ~stalled
    /\ \E o \in {"ok", "raise", "stall"} :
          CASE o = "ok" ->
                 /\ pc' = "merging"
                 /\ UNCHANGED <<active, caller, stalled, clicks, pending,
                                tick_armed, cycles>>
                 /\ UNCHANGED <<status, seconds_left, last_update, now>>
            [] o = "raise" -> Fail
            [] OTHER ->
                 /\ stalled' = TRUE
                 /\ UNCHANGED <<pc, active, caller, clicks, pending,
                                tick_armed, cycles>>
                 /\ UNCHANGED <<status, seconds_left, last_update, now>>
    /\ UNCHANGED loopData
    /\ UNCHANGED feedVars
    /\ UNCHANGED pureVars

\* merge_new(self.current_df, fresh)
StepMerge ==
    /\ pc = "merging"
    /\ \E o \in {"ok", "raise"} :
          IF o = "ok"
          THEN /\ pc' = "persisting"
               /\ UNCHANGED <<active, caller, stalled, clicks, pending,
                              tick_armed, cycles>>
               /\ UNCHANGED <<status, seconds_left, last_update, now>>
          ELSE Fail
    /\ UNCHANGED loopData
    /\ UNCHANGED feedVars
    /\ UNCHANGED pureVars

\* the durable-store upsert (its failure is handled in place), the media
\* download, save_csv and populate_table, then the report
StepPersist ==
    /\ pc = "persisting"
    /\ \E dbOut \in {"ok", "raise"} : \E o \in {"ok", "raise"} :
       \E n_new \in 0..1 :
          LET status1 == IF dbOut = "raise"
                         THEN status_var_set(status, DbErrorStatus)
                         ELSE status
          IN  IF escapes(dbOut = "raise", FALSE, o = "raise")
              THEN /\ status' = status_var_set(status1, PollingErrorStatus)
                   /\ Return(after_exception(pc))
                   /\ UNCHANGED <<seconds_left, last_update, now>>
              ELSE /\ now' = now + 1
                   /\ last_update' = now + 1
                   /\ seconds_left' = POLL_SECONDS
                   /\ status' = status_var_set(status1,
                         [segs  |-> status_line(now + 1).segs
                                    \cup (IF n_new > 0 THEN {"added"} ELSE {"no_new"}),
                          n_new |-> n_new, total |-> n_new])
                   /\ Return("idle")
    /\ UNCHANGED loopData
    /\ UNCHANGED feedVars
    /\ UNCHANGED pureVars

CycleStep == StepFetch \/ StepMerge \/ StepPersist

LoopNext ==
    \/ ClickRefresh
    \/ DispatchClick
    \/ DispatchPollTimer
    \/ DispatchTick
    \/ StepFetch
    \/ StepMerge
    \/ StepPersist

SpecLoop == LoopInit /\ [][LoopNext]_vars

-----------------------------------------------------------------------------
(* Feed management: load_feeds at start, then the handlers add_feed,       *)
(* find_feed_on_page and remove_selected_feed in any order.                *)

U1   == "https://a.example/rss.xml"
U2   == "https://b.example/feed"
Page == "https://a.example/news"

\* texts the user can have typed into the entry
EntryTexts == {"", " ", Page, U1, U2, DEFAULT_FEEDS[1]}

\* s(text).strip() on the texts of the model
strip(text) == IF text = " " THEN "" ELSE text

\* seems_like_feed_url(u): the texts of the model that hold "://" and one of
\* ".xml", "/feed", "rss", "atom"
seems_like_feed_url(u) == u \in {U1, U2, DEFAULT_FEEDS[1]}

\* items of a JSON value: strings and one that is not a string
JsonItems ==
    {[t |-> "str", v |-> U1], [t |-> "str", v |-> U2], [t |-> "num", v |-> "7"]}

\* what FEEDS_JSON can hold at start: nothing, text that is not JSON, a
\* scalar, or a list or an object (iterated by its items or keys)
JsonFiles ==
    {[st |-> "missing", data |-> [kind |-> "none", items |-> <<>>]],
     [st |-> "bad", data |-> [kind |-> "none", items |-> <<>>]],
     [st |-> "ok", data |-> [kind |-> "scalar", items |-> <<>>]]}
    \cup {[st |-> "ok", data |-> [kind |-> k, items |-> it]] :
             k \in {"list", "dict"}, it \in SeqsUpTo(JsonItems, MaxJsonItems)}

\* load_feeds() -> [feeds, file]
load_feeds(file) ==
    IF file.st = "missing"
    THEN [feeds |-> DEFAULT_FEEDS, file |-> json_dumps(DEFAULT_FEEDS)]
    ELSE IF file.st = "bad" \/ file.data.kind = "scalar"
    THEN [feeds |-> DEFAULT_FEEDS, file |-> file]
    ELSE LET items == file.data.items
             strs  == Filter(items, {i \in 1..Len(items) : items[i].t = "str"}, 1)
             fs    == [i \in 1..Len(strs) |-> strs[i].v]
         IN  [feeds |-> IF fs = <<>> THEN DEFAULT_FEEDS ELSE fs, file |-> file]

\* how FEEDS_JSON.write_text can end; every outcome but "ok" raises
SaveOutcomes == {"ok", "open_failed", "truncated"}

\* save_feeds(fs) ending with outcome w: the file afterwards
save_feeds(file, fs, w) ==
    CASE w = "ok"          -> json_dumps(fs)
      [] w = "open_failed" -> file
      [] OTHER             -> [st |-> "bad", data |-> [kind |-> "none", items |-> <<>>]]

\* the last feed can be removed as well
keep_one_off(fs) ==
    FALSE

\* remove_selected_feed refuses when one feed is left
keep_one(fs) ==
    Len(fs) = 1

\* the sequence without its element at idx
Del(fs, idx) == SubSeq(fs, 1, idx - 1) \o SubSeq(fs, idx + 1, Len(fs))

feedRest == <<csv, current_df, db, status, seconds_left, last_update, now,
              uuid_ctr, cycles, restarts, last>>

FeedsInit ==
    /\ \E f \in JsonFiles :
          /\ feeds = load_feeds(f).feeds
          /\ feeds_list = load_feeds(f).feeds
          /\ feeds_json = load_feeds(f).file
    /\ feed_msg = "none"
    /\ csv = NoFile
    /\ current_df = <<>>
    /\ db = {}
    /\ status = status_line(0)
    /\ seconds_left = POLL_SECONDS
    /\ last_update = 0
    /\ now = 0
    /\ uuid_ctr = 0
    /\ cycles = 0
    /\ restarts = 0
    /\ faults = 0
    /\ last = NoCycle
    /\ PureQuiet
    /\ LoopQuiet

\* the handler returns after a dialog (or silently) without touching the list
Refuse(msg) ==
    /\ feed_msg' = msg
    /\ UNCHANGED <<feeds, feeds_list, feeds_json, faults>>

\* self.feeds becomes fs; save_feeds, refresh_feeds_listbox, the dialog msg.
\* When save_feeds raises the handler ends there: the listbox is not
\* refreshed and no dialog is shown.
Store(fs, msg, w) ==
    /\ w # "ok" => faults < MaxFaults
    /\ feeds' = fs
    /\ feeds_json' = save_feeds(feeds_json, fs, w)
    /\ feeds_list' = IF w = "ok" THEN fs ELSE feeds_list
    /\ feed_msg' = IF w = "ok" THEN msg ELSE "traceback"
    /\ faults' = faults + (IF w = "ok" THEN 0 ELSE 1)

\* add_feed(); parsed: what feedparser.parse(u) gives
add_feed ==
    /\ \E text \in EntryTexts : \E parsed \in {"entries", "empty", "raise"} :
       \E w \in SaveOutcomes :
          LET u == strip(text)
          IN  IF u = "" THEN Refuse(feed_msg)
              ELSE IF ~seems_like_feed_url(u) THEN Refuse("Not a feed URL")
              ELSE IF u \in Range(feeds) THEN Refuse("Already added")
              ELSE IF parsed # "entries" THEN Refuse("Invalid feed")
              ELSE Store(Append(feeds, u), "Feed added", w)
    /\ UNCHANGED feedRest
    /\ UNCHANGED pureVars
    /\ UNCHANGED loopVars

\* find_feed_on_page(); found: what discover_feed_urls(u) returns
find_feed_on_page ==
    /\ \E text \in EntryTexts :
       \E found \in {f \in SeqsUpTo({U1, U2}, 2) : Len(f) = Cardinality(Range(f))} :
       \E w \in SaveOutcomes :
          LET u       == strip(text)
              choices == Filter(found, {i \in 1..Len(found) :
                                           found[i] \notin Range(feeds)}, 1)
          IN  IF u = "" THEN Refuse(feed_msg)
              ELSE IF found = <<>> THEN Refuse("No feeds found")
              ELSE IF choices = <<>> THEN Refuse("Already added")
              ELSE Store(Append(feeds, choices[1]), "Feed discovered", w)
    /\ UNCHANGED feedRest
    /\ UNCHANGED pureVars
    /\ UNCHANGED loopVars

\* remove_selected_feed(); sel: the selected line of the listbox, 0 for none
remove_selected_feed ==
    /\ \E sel \in 0..Len(feeds_list) : \E w \in SaveOutcomes :
          IF sel = 0 THEN Refuse(feed_msg)
          ELSE IF sel > Len(feeds) THEN Refuse("traceback")
          ELSE IF keep_one(feeds) THEN Refuse("Cannot remove")
          ELSE Store(Del(feeds, sel), "Feed removed", w)
    /\ UNCHANGED feedRest
    /\ UNCHANGED pureVars
    /\ UNCHANGED loopVars

FeedsNext == add_feed \/ find_feed_on_page \/ remove_selected_feed

SpecFeeds == FeedsInit /\ [][FeedsNext]_vars

-----------------------------------------------------------------------------
(* Properties *)

Key(r) == to_datetime(r.published_time_utc)

\* index of the first row of N with the given id
FirstIdx(N, id) ==
    CHOOSE i \in 1..Len(N) :
        /\ N[i].article_id = id
        /\ \A j \in 1..(i - 1) : N[j].article_id # id

\* the inputs of merge_new as merge_new normalizes them
FreshN == normalize_ids(py, 0)
ExistN == normalize_ids(px, Uuid4Used(py))

\* C1: merge_new returns new_ids = ids(normalized fresh) \ ids(normalized
\* existing); with an empty existing collection new_ids is every id of fresh
\* and the combined collection is the whole normalized fresh collection (one
\* row per id of fresh, nothing else).
C1_MergeNewIdsExact ==
    pres.op = "merge" =>
        /\ pres.new_ids = Ids(FreshN) \ Ids(ExistN)
        /\ px = <<>> =>
             /\ pres.new_ids = Ids(FreshN)
             /\ Ids(pres.out) = Ids(FreshN)
             /\ Len(pres.out) = Cardinality(Ids(FreshN))
             /\ \A k \in 1..Len(pres.out) :
                   LET r == FreshN[FirstIdx(FreshN, pres.out[k].article_id)]
                   IN  pres.out[k] = [r EXCEPT !.published_time_utc =
                                         fillna(strftime(to_datetime(@)))]

\* C1 witness: a merge with fetched ids both known and unknown to a non-empty
\* existing collection
C1_Witness ==
    /\ pres.op = "merge"
    /\ px # <<>>
    /\ pres.new_ids # {}
    /\ Ids(FreshN) \cap Ids(ExistN) # {}

\* C2: merge is insert-only: every record of existing is in the combined
\* collection with existing's (normalized) field values, whatever fresh holds
\* for that id, and its id is not in new_ids.
C2_MergeInsertOnly ==
    pres.op = "merge" =>
        \A i \in 1..Len(ExistN) :
            (i = FirstIdx(ExistN, ExistN[i].article_id)) =>
                /\ ExistN[i].article_id \notin pres.new_ids
                /\ \E k \in 1..Len(pres.out) :
                      pres.out[k] = [ExistN[i] EXCEPT !.published_time_utc =
                                        fillna(strftime(to_datetime(@)))]

\* C2 witness: fresh holds an id of existing with another title
C2_Witness ==
    /\ pres.op = "merge"
    /\ \E i \in 1..Len(ExistN) : \E j \in 1..Len(FreshN) :
          /\ i = FirstIdx(ExistN, ExistN[i].article_id)
          /\ FreshN[j].article_id = ExistN[i].article_id
          /\ FreshN[j].title # ExistN[i].title

\* out is ordered by published_time_utc non-increasing with the rows without
\* a timestamp last, and rows whose input timestamps are equal (or both
\* missing) are in the order of their first occurrence in the input N
OrderedStable(out, N) ==
    \A i, j \in 1..Len(out) :
        i < j =>
            LET a == FirstIdx(N, out[i].article_id)
                b == FirstIdx(N, out[j].article_id)
            IN  /\ Key(out[i]) = NaT => Key(out[j]) = NaT
                /\ Key(out[j]) # NaT => Key(out[i]) >= Key(out[j])
                /\ Key(N[a]) = Key(N[b]) => a < b

\* C4: the output of dedupe_df and of merge_new is ordered by publishedAt
\* non-increasing, records without a parseable publishedAt come after all
\* timestamped ones, and the input order (for merge_new: existing, then
\* fresh) is kept among records with equal or missing timestamps.
C4_OrderedOutput ==
    /\ pres.op = "dedupe" => OrderedStable(pres.out, normalize_ids(px, 0))
    /\ pres.op = "merge" => OrderedStable(pres.out, ExistN \o FreshN)

\* C4 witness: an output with two timestamped rows of equal input timestamp
\* followed by a row without timestamp
C4_Witness ==
    /\ pres.op = "dedupe"
    /\ Len(pres.out) = 3
    /\ Key(pres.out[1]) # NaT
    /\ Key(pres.out[1]) = Key(pres.out[2])
    /\ Key(pres.out[3]) = NaT
    /\ Key(px[1]) = NaT

\* C5: dedupe_df is idempotent: dedupe_df(dedupe_df(X)) has the records,
\* the field values and the order of dedupe_df(X).
C5_DedupeIdempotent ==
    pres.op = "dedupe" => pres.out2 = pres.out

\* C5 witness: an input that dedupe_df changes (a duplicate dropped, rows
\* reordered, a timestamp rewritten) has been deduped twice
C5_Witness ==
    /\ pres.op = "dedupe"
    /\ Len(pres.out) >= 2
    /\ Len(pres.out) < Len(px)
    /\ pres.out[1].article_id # normalize_ids(px, 0)[1].article_id
    /\ \E k \in 1..Len(px) : px[k].published_time_utc \notin {TS1Z, TS2Z, ""}

\* C3: current_df never holds two records with the same article_id.
C3_UniqueIds ==
    \A i, j \in 1..Len(current_df) :
        i # j => current_df[i].article_id # current_df[j].article_id

\* C3 witness: a completed cycle that fetched an id already in the
\* collection, which holds several records
C3_Witness ==
    /\ last.ran
    /\ last.completed
    /\ last.fresh_ids \cap last.existing_ids # {}
    /\ Len(current_df) >= 2

\* C6: the new_ids of every poll cycle are exact: none of them is an id the
\* durable store received in an earlier successful upsert, and every fetched
\* id that is absent from the prior collection is among them.
C6_NewIdsExact ==
    last.ran =>
        /\ last.new_ids \cap last.db_before = {}
        /\ (last.fresh_ids \ last.existing_ids) \subseteq last.new_ids

C8_SnapshotWriteAtomic ==
    (last.ran /\ last.save # "none") =>
        \/ csv = last.file_before
        \/ csv = [st |-> "ok", rows |-> to_csv(last.combined)]

\* C9: a cycle whose durable-store step raised is not aborted by it: the
\* cycle goes on to the snapshot write, and unless that write (or the media
\* step before it) fails itself, the cycle completes with the snapshot and
\* the in-memory collection holding the cycle's new records.
C9_DbFailureNotFatal ==
    (last.ran /\ last.db_raised) =>
        /\ last.new_ids # {}
        /\ ~last.img_raised => last.save # "none"
        /\ last.save = "ok" =>
             /\ last.completed
             /\ last.new_ids \subseteq Ids(current_df)
             /\ csv.st = "ok"
             /\ last.new_ids \subseteq Ids(csv.rows)
             /\ "polling_error" \notin status.segs

\* C9 witness: a cycle with a failed upsert that added records
C9_Witness ==
    /\ last.ran
    /\ last.db_raised
    /\ last.completed
    /\ last.new_ids \subseteq Ids(current_df)

\* C10: when the durable-store upsert raised in a cycle that completed, the
\* status shown at the end of the cycle reports success together with the
\* durable-store warning.
C10_DbWarningInFinalStatus ==
    (last.ran /\ last.db_raised /\ last.completed) =>
        /\ "added" \in status.segs
        /\ "db_error" \in status.segs

\* C11: the batch a poll cycle submits to the durable store is exactly the
\* records of the combined collection whose id is in that cycle's new_ids,
\* one tuple per such record and in the collection's order, with the record's
\* field values; when new_ids is empty the batch is empty and the durable
\* store is left as it was.
C11_BatchIsNewIds ==
    last.ran =>
        LET sel == {i \in 1..Len(last.combined) :
                       last.combined[i].article_id \in last.new_ids}
        IN  /\ Len(last.batch) = Cardinality(sel)
            /\ {r.article_id : r \in Range(last.batch)} = last.new_ids
            /\ \A k \in 1..Len(last.batch) :
                  \E i \in sel :
                     /\ Cardinality({j \in sel : j <= i}) = k
                     /\ last.batch[k].article_id = last.combined[i].article_id
                     /\ last.batch[k].title = last.combined[i].title
                     /\ last.batch[k].published_time =
                           to_datetime(last.combined[i].published_time_utc)
                     /\ last.batch[k].fetched_at_utc =
                           last.combined[i].fetched_at_utc
            /\ last.new_ids = {} => (last.batch = <<>> /\ db = last.table_before)
            /\ (last.new_ids # {} /\ ~last.db_raised) =>
                  db = UPSERT_SQL(last.table_before, last.batch)

\* C11 witness: a cycle whose combined collection holds new and known
\* records and whose batch reached the durable store
C11_Witness ==
    /\ last.ran
    /\ last.new_ids # {}
    /\ ~last.db_raised
    /\ Ids(last.combined) \ last.new_ids # {}
    /\ DbIds(db) = last.db_before \cup last.new_ids

\* C11 witness of the empty case: a cycle without new ids after the durable
\* store was filled
C11_WitnessEmpty ==
    /\ last.ran
    /\ last.new_ids = {}
    /\ last.fresh_ids # {}
    /\ db # {}

\* the frame fetch_feed_rows returns for source k of the sources px.a
UnitFrame(k) == fetch_feed_rows(px.a[k].entries, 1, Uuid4Fetched(px.a, k - 1))

\* C12: fetch_all_feeds isolates failures per source: whatever sources fail,
\* it returns a collection whose ids are exactly the ids of the records the
\* healthy sources produced, each row being a record of a healthy source; a
\* failing source contributes no record.
C12_FetchIsolatesSources ==
    pres.op = "fetch" =>
        LET healthy == {k \in 1..Len(px.a) : px.a[k].ok}
        IN  /\ Ids(pres.out) = UNION {Ids(UnitFrame(k)) : k \in healthy}
            /\ \A i \in 1..Len(pres.out) :
                  \E k \in healthy : pres.out[i] \in Range(UnitFrame(k))

\* C12 witness: a source fails on a document with entries next to a healthy
\* source with entries, and the result holds the healthy source's record
C12_Witness ==
    /\ pres.op = "fetch"
    /\ \E k \in 1..Len(px.a) : ~px.a[k].ok /\ px.a[k].entries # <<>>
    /\ \E k \in 1..Len(px.a) : px.a[k].ok /\ px.a[k].entries # <<>>
    /\ pres.out # <<>>

\* C15: gen_article_id is a function of the url alone when the url is not
\* empty: two calls with the same url return the same id, whenever and
\* wherever they are made, and that id is uuid5 of the url; with an empty url
\* every call returns a freshly drawn id, so two calls return different ids.
C15_GenIdDeterministic ==
    pres.op = "genid" =>
        /\ px.a # "" => (pres.out = pres.out2 /\ pres.out[1] = Uuid5(px.a))
        /\ px.a = "" => pres.out[1] # pres.out2[1]

\* C15 witness: two calls with the same non-empty url, random identifiers
\* having been drawn between them
C15_Witness ==
    /\ pres.op = "genid"
    /\ px.a # ""
    /\ px.b[2] > 0

\* C15 witness of the empty case: two calls without a url
C15_WitnessEmpty ==
    /\ pres.op = "genid"
    /\ px.a = ""
    /\ pres.out2 # <<>>

\* C16: when the snapshot file exists but cannot be read or parsed,
\* load_existing returns the empty collection, raises nothing and leaves the
\* file alone.
C16_UnreadableSnapshotLoadsEmpty ==
    (pres.op = "load" /\ px.a.st = "corrupt") =>
        /\ pres.out = <<>>
        /\ ~pres.raised
        /\ pres.out2 = <<px.a>>

\* C16 witness: load_existing has run on an unreadable file
C16_Witness ==
    /\ pres.op = "load"
    /\ px.a.st = "corrupt"
    /\ pres.out = <<>>

\* C18: submitting the same batch to upsert_articles twice leaves the
\* durable store as submitting it once does: one row per article id of the
\* batch, and the same rows.
C18_UpsertIdempotent ==
    pres.op = "upsert" =>
        /\ pres.out2 = pres.out
        /\ Cardinality(pres.out2) = Cardinality(DbIds(px.b) \cup Ids(px.a))

\* C14: the fetched_at_utc the collection holds for an id is set once: a
\* record a poll cycle inserts carries the fetch time of that cycle, and no
\* step (a later merge of the same id included) changes the fetched_at_utc
\* of a record that stays in the collection, so it never decreases.
C14_FetchedAtSetOnce ==
    [][/\ \A i \in 1..Len(current_df) : \A j \in 1..Len(current_df') :
             current_df[i].article_id = current_df'[j].article_id =>
                current_df'[j].fetched_at_utc = current_df[i].fetched_at_utc
       /\ cycles' # cycles =>
             \A j \in 1..Len(current_df') :
                current_df'[j].article_id \notin Ids(current_df) =>
                   current_df'[j].fetched_at_utc = FetchedAt(now')]_vars

\* C14 witness: a completed cycle fetched again, at clock value 2, an id the
\* collection holds with the fetch time of cycle 1
C14_Witness ==
    /\ last.ran
    /\ last.completed
    /\ now = 2
    /\ \E j \in 1..Len(current_df) :
          /\ current_df[j].article_id \in last.fresh_ids
          /\ current_df[j].fetched_at_utc = FetchedAt(1)

\* C17: a poll cycle that runs to completion (no step other than the
\* durable-store write failed) reports the number of new items, the size of
\* the collection and the time of the last successful cycle, which is this
\* cycle, whether the durable-store write succeeded or failed.
C17_CompletionReport ==
    (last.ran /\ ~last.img_raised /\ last.save \in {"ok", "none"}) =>
        /\ last.completed
        /\ "last_update" \in status.segs
        /\ last_update = now
        /\ ("added" \in status.segs) = (last.new_ids # {})
        /\ ("no_new" \in status.segs) = (last.new_ids = {})
        /\ status.n_new = Cardinality(last.new_ids)
        /\ status.total = Len(current_df)
        /\ Ids(current_df) = Ids(last.combined)

\* C17 witness: a cycle with new items whose durable-store write failed has
\* completed
C17_Witness ==
    /\ last.ran
    /\ last.db_raised
    /\ last.completed
    /\ last.new_ids # {}

\* C13: no poll cycle blocks: whenever a cycle is in progress, also while a
\* source does not answer, a step of the cycle can be taken (the stalled
\* fetch is ended as a failure of that source), so the cycle gets back to
\* idle.
C13_CycleNeverBlocks ==
    pc # "idle" => ENABLED CycleStep

\* C19: a poll cycle goes idle -> fetching -> merging -> persisting -> idle;
\* an exception in any step takes the poller straight to idle with the
\* polling-error status; the cycle that ends, with or without an error,
\* leaves the main loop free and a poll timer armed, so later triggers start
\* new cycles.
C19_CycleStateMachine ==
    [][/\ pc' # pc =>
             \/ pc = "idle" /\ pc' = "fetching"
             \/ pc = "fetching" /\ pc' = "merging"
             \/ pc = "merging" /\ pc' = "persisting"
             \/ /\ pc = "persisting"
                /\ pc' = "idle"
                /\ \/ status' = PollingErrorStatus
                   \/ /\ "last_update" \in status'.segs
                      /\ last_update' = now'
                      /\ seconds_left' = POLL_SECONDS
             \/ /\ pc \in {"fetching", "merging"}
                /\ pc' = "idle"
                /\ status' = PollingErrorStatus
       /\ (pc # "idle" /\ pc' = "idle") =>
             /\ mainloop_ready(active')
             /\ pending' > 0
             /\ tick_armed' \/ caller # "tick"]_vars

\* C19 witness: a second cycle is running while the status still shows the
\* polling error of the first
C19_Witness ==
    /\ cycles = 2
    /\ pc = "merging"
    /\ status = PollingErrorStatus

\* C20: at most one poll cycle is in progress at any time, whatever timers
\* expire and whatever clicks arrive while it runs: the triggers wait until
\* the running cycle has returned, and each then runs the same poll_once.
C20_OneCycleAtATime ==
    /\ active \in {0, 1}
    /\ (active = 1) = (pc # "idle")
    /\ (pc = "idle") = (caller = "none")

\* C20 witness: a cycle is running while a click and two poll timers wait
C20_Witness ==
    /\ pc = "persisting"
    /\ active = 1
    /\ clicks > 0
    /\ pending > 1
    /\ caller = "button"

\* C21: there is no automatic retry.  A cycle whose durable-store write
\* failed and which completed leaves the ids of its batch in the collection;
\* a poll cycle neither counts as new nor submits an id the collection
\* holds, and no poll cycle takes an id out of the collection: so no later
\* cycle of the run has those ids in new_ids or in its batch.
C21_NoAutomaticRetry ==
    [][cycles' # cycles =>
          /\ last'.new_ids \cap Ids(current_df) = {}
          /\ last'.submitted \cap Ids(current_df) = {}
          /\ Ids(current_df) \subseteq Ids(current_df')
          /\ (last'.db_raised /\ last'.completed) =>
                (last'.new_ids # {} /\ last'.new_ids \subseteq Ids(current_df'))]_vars

\* C21 witness: cycle 2 fetched again a record that cycle 1 inserted and
\* whose durable-store write failed; it is not new and the store lacks it
C21_Witness ==
    /\ last.ran
    /\ now = 2
    /\ last.new_ids = {}
    /\ last.submitted = {}
    /\ \E j \in 1..Len(current_df) :
          /\ current_df[j].fetched_at_utc = FetchedAt(1)
          /\ current_df[j].article_id \in last.fresh_ids
          /\ current_df[j].article_id \notin DbIds(db)

\* C23: within one run the collection only grows or reorders: a poll cycle,
\* completed or failed, keeps every record of current_df with all of its
\* field values.
C23_CollectionOnlyGrows ==
    [][cycles' # cycles => Range(current_df) \subseteq Range(current_df')]_vars

\* C23 witness: the second cycle of a run completed after fetching an id
\* the collection already held
C23_Witness ==
    /\ last.ran
    /\ last.completed
    /\ cycles = 2
    /\ restarts = 0
    /\ last.existing_ids \cap last.fresh_ids # {}

\* C24: the collection takes the new ids only after the snapshot holding
\* them was written: a cycle in which the snapshot write, or a step before
\* it, raised out of its step leaves current_df exactly as it was; a cycle
\* that added ids to current_df wrote them to CSV_OUT first.
C24_SnapshotBeforeCollection ==
    [][cycles' # cycles =>
          /\ (last'.img_raised \/ last'.save \notin {"ok", "none"}) =>
                current_df' = current_df
          /\ Ids(current_df') # Ids(current_df) =>
                /\ last'.save = "ok"
                /\ csv'.st = "ok"
                /\ Ids(current_df') \subseteq Ids(csv'.rows)]_vars

\* C24 witness: a cycle with new ids whose snapshot write raised
C24_Witness ==
    /\ last.ran
    /\ last.new_ids # {}
    /\ last.save \notin {"ok", "none"}
    /\ last.new_ids \cap Ids(current_df) = {}

\* C22: deduplication keeps the first occurrence in input order.  Every row
\* dedupe_df returns is the first row of its (normalized) input with that
\* id, and every row fetch_all_feeds returns is the record of the healthy
\* source that comes first in the source list among those producing its id.
C22_FirstOccurrenceKept ==
    /\ (pres.op = "dedupe" /\ px.kind = "dedupe") =>
          LET N == normalize_ids(px.a, 0)
          IN  /\ Ids(pres.out) = Ids(N)
              /\ \A k \in 1..Len(pres.out) :
                    pres.out[k] =
                       [N[FirstIdx(N, pres.out[k].article_id)]
                           EXCEPT !.published_time_utc =
                                     fillna(strftime(to_datetime(@)))]
    /\ pres.op = "fetch" =>
          \A i \in 1..Len(pres.out) :
             \E k \in 1..Len(px.a) :
                /\ px.a[k].ok
                /\ pres.out[i] \in Range(UnitFrame(k))
                /\ \A j \in 1..(k - 1) :
                      px.a[j].ok =>
                         pres.out[i].article_id \notin Ids(UnitFrame(j))

\* C22 witness: two healthy sources produced the same id with different
\* titles
C22_Witness ==
    /\ pres.op = "fetch"
    /\ \E j, k \in 1..Len(px.a) :
          /\ j < k
          /\ px.a[j].ok
          /\ px.a[k].ok
          /\ \E r \in Range(UnitFrame(j)) : \E q \in Range(UnitFrame(k)) :
                r.article_id = q.article_id /\ r.title # q.title

\* C22 witness for dedupe_df: the input holds one id twice with different
\* titles
C22_WitnessDedupe ==
    /\ pres.op = "dedupe"
    /\ px.kind = "dedupe"
    /\ \E i, j \in 1..Len(px.a) :
          /\ i < j
          /\ normalize_ids(px.a, 0)[i].article_id = normalize_ids(px.a, 0)[j].article_id
          /\ px.a[i].title # px.a[j].title

\* C25: in every reachable state at most one scheduled poll_once timer is
\* pending.
C25_OnePendingPoll ==
    pending <= 1

\* C26: every call of poll_once, also one that took the failure edge,
\* leaves seconds_left at POLL_SECONDS: while the status shows the polling
\* error of the cycle that just returned, the countdown is at POLL_SECONDS.
C26_CountdownResetByEveryCycle ==
    (pc = "idle" /\ status = PollingErrorStatus) => seconds_left = POLL_SECONDS

\* C27: the configured feed list is never empty: not after load_feeds,
\* whatever FEEDS_JSON holds, and not after any sequence of add_feed,
\* find_feed_on_page and remove_selected_feed.
C27_FeedsNeverEmpty ==
    Len(feeds) >= 1

\* C27 witness: remove_selected_feed removed one of two feeds (its
\* save_feeds raised, so the listbox still shows two) and then refused to
\* remove the one that is left
C27_Witness ==
    /\ feed_msg = "Cannot remove"
    /\ Len(feeds) = 1
    /\ Len(feeds_list) = 2

====
